---- MODULE Spec2Model ----
(***************************************************************************)
(* ha_netdata: the polling coordinator NetdataData (sensor.py), the entry  *)
(* setup and unload (__init__.py), the sensor platform and the two sensor  *)
(* classes NetdataSensor and NetdataAlarms (sensor.py).                    *)
(*                                                                         *)
(* NetdataData derives from Home Assistant's DataUpdateCoordinator. The    *)
(* base class is not part of the repository; the actions below follow its  *)
(* refresh routine: a refresh awaits _async_update_data, stores the result *)
(* in self.data on success, clears last_update_success on any exception,   *)
(* and re-arms the interval timer at the end of the refresh when there are *)
(* listeners.  The timer is disarmed when it fires.                        *)
(*                                                                         *)
(* Init is the state right after NetdataData was constructed with a numeric*)
(* interval (sensor.py 197-204).  The call of the constructor as written   *)
(* (__init__.py line 14, which hands the filters list over as interval) is *)
(* a step of SpecSetup, which follows an entry from its config flow to that*)
(* call.  Spec follows one coordinator from its construction to the unload *)
(* of its entry; SpecHosts follows two entries through setups, unloads and *)
(* renewed setups.  Refreshes requested on demand (the entity update       *)
(* service) are not modelled: cycles are started by the first refresh and  *)
(* by the interval timer.                                                  *)
(*                                                                         *)
(* Numbers read from the daemon are kept in thousandths (fixed point):     *)
(* 4000 is 4.0, 8192000 is 8192.0.  The bodies the daemon returns are      *)
(* well-formed: every alarm has a status and a recipient.                  *)
(***************************************************************************)
EXTENDS Integers, Sequences, FiniteSets, TLC

VARIABLES
    phase,                \* per entry: progress of async_setup_entry / async_unload_entry
    registry,             \* hass.data[DOMAIN]: the entry ids holding a coordinator
    data,                 \* coordinator.data: <<>> is None, <<snapshot>> once published;
                          \* mcyc and acyc are ghost fields: the cycle that fetched each part
    last_update_success,  \* coordinator.last_update_success
    timer,                \* the interval timer is armed (_unsub_refresh is set)
    cycles,               \* the _async_update_data calls in flight
    outcome,              \* ghost: how the last finished cycle ended: "none", "ok", or
                          \* the await that raised
    sensors,              \* the NetdataSensor entities created: key -> _unit_lower
    alarmEntity,          \* the NetdataAlarms entity exists
    lastRead,             \* the last property read by the platform: view and result
    ingested,             \* ghost: the last three raw values published for TrackedKey
                          \* (recorded when on)
    alarmsIn,             \* input of the stand-alone alarm reduction
    alarmsOut,            \* its result
    config                \* per entry: self.config of the config flow, then entry.data

vars == <<phase, registry, data, last_update_success, timer, cycles,
          outcome, sensors, alarmEntity, lastRead, ingested, alarmsIn, alarmsOut, config>>

(***************************************************************************)
(* Bounds and input sets                                                   *)
(***************************************************************************)
Entries == {"e1"}
MaxIds == 3
Ids == 1..MaxIds
MaxAlarms == 2

EmptyMap == [x \in {} |-> 0]

\* CONF_RESOURCES of the entry, "series/dimension" strings already split
Resources == << <<"s1", "d1">>, <<"s2", "d1">> >>
Keys == {Resources[i] : i \in 1..Len(Resources)}
TrackedKey == <<"s2", "d1">>

\* entry.data of the entry followed by the coordinator specifications
EntryData == [domains |-> {"s1", "s2"}, resources |-> Keys, scan_interval |-> 1]

UnitOf(s) == IF s = "s1" THEN "kilobits/s" ELSE "percentage"

\* one series of /api/v1/allmetrics: absent, without the dimension, or with a value
SeriesChoices(s, Vals) ==
    {[units |-> UnitOf(s), dimensions |-> EmptyMap]}
    \cup {[units |-> UnitOf(s), dimensions |-> [d \in {"d1"} |-> v]] : v \in Vals}

MetricsOver(Vals) ==
    UNION {
        {m \in [S -> SeriesChoices("s1", Vals) \cup SeriesChoices("s2", Vals)] :
            \A s \in S : m[s] \in SeriesChoices(s, Vals)}
        : S \in SUBSET {"s1", "s2"}}

PollValues == {-3000, 4000}
PollMetrics == MetricsOver(PollValues)

\* for the sensor reads: s1 (kilobits/s) steady at 8192.0, s2 varying
SensorValues == {-3000, 4000, -5000}
SensorMetrics ==
    {m \in MetricsOver(SensorValues \cup {8192000}) :
        /\ "s1" \in DOMAIN m
        /\ m["s1"].dimensions = [d \in {"d1"} |-> 8192000]
        /\ "s2" \in DOMAIN m =>
              \A d \in DOMAIN m["s2"].dimensions : m["s2"].dimensions[d] \in SensorValues}
SensorAlarms == {<< >>}

Statuses == {"CLEAR", "WARNING", "CRITICAL", "UNDEFINED", "UNINITIALIZED", "REMOVED"}
Recipients == {"silent", "sysadmin"}
AlarmEntries == [status : Statuses, recipient : Recipients]
AlarmSeqs == UNION {[1..n -> AlarmEntries] : n \in 0..MaxAlarms}

\* the "alarms" object of /api/v1/alarms, in the order the dict is iterated
PollAlarms == {
    << >>,
    << [status |-> "WARNING", recipient |-> "sysadmin"] >>,
    << [status |-> "CLEAR", recipient |-> "sysadmin"],
       [status |-> "CRITICAL", recipient |-> "sysadmin"] >> }

(***************************************************************************)
(* Pure functions of sensor.py                                             *)
(***************************************************************************)
Abs(x) == IF x < 0 THEN -x ELSE x

\* round(x / q) to the nearest integer, ties to even (Python's round), x >= 0
RoundDiv(x, q) ==
    LET f == x \div q
        r == x % q
    IN  IF 2 * r < q THEN f
        ELSE IF 2 * r > q THEN f + 1
        ELSE IF f % 2 = 0 THEN f ELSE f + 1

\* round(x, 2) and round(x / 1024 / 8, 3) on thousandths
Round2(x) == RoundDiv(x, 10) * 10
KilobitsToMegabytes(x) == RoundDiv(x, 1024 * 8)

\* str(unit).lower()
Lower(u) == IF u = "Kilobits/s" THEN "kilobits/s" ELSE u

None == [kind |-> "None", v |-> 0]
KeyError == [kind |-> "KeyError", v |-> 0]
Num(x) == [kind |-> "number", v |-> x]
Str(s) == [kind |-> s, v |-> 0]

\* NetdataSensor.available
NetdataSensor_available(lus, d, key) ==
    lus /\ key[1] \in DOMAIN d.metrics

\* NetdataSensor.native_value
NetdataSensor_native_value(d, key, unit_lower) ==
    IF key[1] \notin DOMAIN d.metrics THEN None
    ELSE IF key[2] \notin DOMAIN d.metrics[key[1]].dimensions THEN KeyError
    ELSE LET value == Round2(Abs(d.metrics[key[1]].dimensions[key[2]]))
         IN  IF unit_lower = "kilobits/s"
             THEN Num(KilobitsToMegabytes(value))
             ELSE Num(value)

\* the first four branches of the loop of NetdataAlarms.native_value
IrrelevantSilentIgnored(a) ==
    a.status \in {"CLEAR", "UNDEFINED", "UNINITIALIZED"}

Irrelevant(a) ==
    \/ a.recipient = "silent"
    \/ a.status = "CLEAR"
    \/ a.status = "UNDEFINED"
    \/ a.status = "UNINITIALIZED"

\* a loop that lets the first relevant entry decide
RECURSIVE AlarmLoopFirstWins(_, _, _)
AlarmLoopFirstWins(alarms, i, n) ==
    IF i > Len(alarms)
    THEN LET s == IF n = 0 THEN "ok" ELSE "warning"
         IN  [value |-> Str(s), state |-> s]
    ELSE IF Irrelevant(alarms[i]) THEN AlarmLoopFirstWins(alarms, i + 1, n - 1)
    ELSE IF alarms[i].status = "CRITICAL"
         THEN [value |-> None, state |-> "critical"]
         ELSE [value |-> Str("warning"), state |-> "warning"]

\* the loop of NetdataAlarms.native_value from entry i on, n relevant so far:
\* the value returned and self._state afterwards
RECURSIVE AlarmLoop(_, _, _)
AlarmLoop(alarms, i, n) ==
    IF i > Len(alarms)
    THEN LET s == IF n = 0 THEN "ok" ELSE "warning"
         IN  [value |-> Str(s), state |-> s]
    ELSE IF Irrelevant(alarms[i]) THEN AlarmLoop(alarms, i + 1, n - 1)
    ELSE IF alarms[i].status = "CRITICAL"
         THEN [value |-> None, state |-> "critical"]   \* a bare "return"
         ELSE AlarmLoop(alarms, i + 1, n)

\* NetdataAlarms.native_value
NetdataAlarms_native_value(alarms) == AlarmLoop(alarms, 1, Len(alarms))

(***************************************************************************)
(* NetdataData._async_update_data and the refresh around it                *)
(***************************************************************************)
AlarmView == <<"alarms", "alarms">>
NoView == <<"none", "none">>

Listeners(e) == DOMAIN sensors[e] \cup (IF alarmEntity[e] THEN {AlarmView} ELSE {})

UsedIds(e) ==
    {c.id : c \in cycles[e]}
    \cup (IF data[e] = << >> THEN {} ELSE {data[e][1].mcyc, data[e][1].acyc})

FreshId(e) == CHOOSE i \in Ids \ UsedIds(e) : \A j \in Ids \ UsedIds(e) : i <= j

\* the requests _async_update_data has issued when it first suspends
RequestsAtStart == {"allmetrics"}

\* the timer right after it fired and the refresh began
TimerAfterTickRearmed == TRUE

TimerAfterTick == FALSE

\* the dict _async_update_data returns
async_update_data_stale(old, c, body) ==
    IF old = << >>
    THEN [metrics |-> c.metrics[1], alarms |-> body, mcyc |-> c.id, acyc |-> c.id]
    ELSE [metrics |-> old[1].metrics, alarms |-> body, mcyc |-> old[1].mcyc, acyc |-> c.id]

async_update_data(old, c, body) ==
    [metrics |-> c.metrics[1], alarms |-> body, mcyc |-> c.id, acyc |-> c.id]

\* coordinator.data after _async_update_data raised
DataOnFailurePartial(old, c) ==
    IF old # << >> /\ c.metrics # << >>
    THEN << [old[1] EXCEPT !.metrics = c.metrics[1], !.mcyc = c.id] >>
    ELSE old

DataOnFailureReset(old, c) == << >>

DataOnFailure(old, c) == old

\* whether async_setup_entry goes on after the first refresh
SetupContinuesAlways(ok) == TRUE

SetupContinues(ok) == ok

NewCycle(e, first) ==
    [id |-> FreshId(e), pc |-> "get_metrics", first |-> first,
     req |-> RequestsAtStart, metrics |-> << >>]

\* async_setup_entry line 15: the first refresh begins
async_setup_entry(e) ==
    /\ phase[e] = "constructed"
    /\ Ids \ UsedIds(e) # {}
    /\ phase' = [phase EXCEPT ![e] = "refreshing"]
    /\ cycles' = [cycles EXCEPT ![e] = @ \cup {NewCycle(e, TRUE)}]
    /\ UNCHANGED <<registry, data, last_update_success, timer, outcome, sensors,
                   alarmEntity, lastRead, ingested, alarmsIn, alarmsOut, config>>

\* the interval timer fires: it is disarmed and a refresh begins
Tick(e) ==
    /\ timer[e]
    /\ Ids \ UsedIds(e) # {}
    /\ timer' = [timer EXCEPT ![e] = TimerAfterTick]
    /\ cycles' = [cycles EXCEPT ![e] = @ \cup {NewCycle(e, FALSE)}]
    /\ UNCHANGED <<phase, registry, data, last_update_success, outcome, sensors,
                   alarmEntity, lastRead, ingested, alarmsIn, alarmsOut, config>>

\* the end of the refresh: self.data, last_update_success, the timer, and for the
\* first refresh lines 17-21 of async_setup_entry or ConfigEntryNotReady
RefreshEnd(e, c, ok, newdata) ==
    /\ cycles' = [cycles EXCEPT ![e] = @ \ {c}]
    /\ data' = [data EXCEPT ![e] = newdata]
    /\ last_update_success' = [last_update_success EXCEPT ![e] = ok]
    /\ outcome' = [outcome EXCEPT ![e] = IF ok THEN "ok" ELSE c.pc]
    /\ timer' = [timer EXCEPT ![e] = IF Listeners(e) # {} THEN TRUE ELSE @]
    /\ IF c.first
       THEN IF SetupContinues(ok)
            THEN /\ registry' = registry \cup {e}
                 /\ phase' = [phase EXCEPT ![e] = "stored"]
            ELSE /\ registry' = registry
                 /\ phase' = [phase EXCEPT ![e] = "setup_failed"]
       ELSE UNCHANGED <<phase, registry>>
    /\ ingested' = [ingested EXCEPT ![e] =
            IF ok /\ @.on /\ newdata # << >>
               /\ TrackedKey[1] \in DOMAIN newdata[1].metrics
               /\ TrackedKey[2] \in DOMAIN newdata[1].metrics[TrackedKey[1]].dimensions
            THEN [@ EXCEPT !.raw =
                    LET r == Append(@, newdata[1].metrics[TrackedKey[1]].dimensions[TrackedKey[2]])
                    IN  IF Len(r) > 3 THEN Tail(r) ELSE r]
            ELSE @]

CycleFails(e, c) ==
    /\ RefreshEnd(e, c, FALSE, DataOnFailure(data[e], c))
    /\ UNCHANGED <<sensors, alarmEntity, lastRead, alarmsIn, alarmsOut, config>>

Advance(e, c, d) ==
    /\ cycles' = [cycles EXCEPT ![e] = (@ \ {c}) \cup {d}]
    /\ UNCHANGED <<phase, registry, data, last_update_success, timer, outcome,
                   sensors, alarmEntity, lastRead, ingested, alarmsIn, alarmsOut, config>>

\* line 208: session.get(url_allmetrics) returns a response or raises
GetMetrics(e) ==
    \E c \in cycles[e] :
        /\ c.pc = "get_metrics"
        /\ \/ Advance(e, c, [c EXCEPT !.pc = "json_metrics"])
           \/ CycleFails(e, c)

\* line 209: request.json() returns the parsed body or raises; on success
\* line 210 issues the alarms request
JsonMetrics(e, Bodies) ==
    \E c \in cycles[e] :
        /\ c.pc = "json_metrics"
        /\ \/ \E m \in Bodies :
                Advance(e, c, [c EXCEPT !.pc = "get_alarms", !.metrics = <<m>>,
                                        !.req = (@ \ {"allmetrics"}) \cup {"alarms"}])
           \/ CycleFails(e, c)

\* line 210: session.get(url_alarms) returns a response or raises
GetAlarms(e) ==
    \E c \in cycles[e] :
        /\ c.pc = "get_alarms"
        /\ \/ Advance(e, c, [c EXCEPT !.pc = "json_alarms"])
           \/ CycleFails(e, c)

\* lines 211-212: request.json() returns the parsed body and the dict is
\* returned and published, or it raises
JsonAlarms(e, Bodies) ==
    \E c \in cycles[e] :
        /\ c.pc = "json_alarms"
        /\ \/ \E a \in Bodies :
                /\ RefreshEnd(e, c, TRUE, << async_update_data(data[e], c, a) >>)
                /\ UNCHANGED <<sensors, alarmEntity, lastRead, alarmsIn, alarmsOut, config>>
           \/ CycleFails(e, c)

(***************************************************************************)
(* The sensor platform, the reads and the unload                           *)
(***************************************************************************)
\* sensor.async_setup_entry: one NetdataSensor per resource, whose __init__ reads
\* coordinator.data["metrics"][sensor]["units"], then NetdataAlarms, then
\* async_add_entities; the first listener arms the timer
sensor_async_setup_entry(e) ==
    /\ phase[e] = "stored"
    /\ IF \A k \in Keys : k[1] \in DOMAIN data[e][1].metrics
       THEN /\ sensors' = [sensors EXCEPT ![e] =
                    [k \in Keys |-> Lower(data[e][1].metrics[k[1]].units)]]
            /\ alarmEntity' = [alarmEntity EXCEPT ![e] = TRUE]
            /\ timer' = [timer EXCEPT ![e] = TRUE]
            /\ phase' = [phase EXCEPT ![e] = "loaded"]
       ELSE /\ phase' = [phase EXCEPT ![e] = "platform_failed"]   \* KeyError, line 81
            /\ UNCHANGED <<sensors, alarmEntity, timer>>
    /\ UNCHANGED <<registry, data, last_update_success, cycles, outcome, lastRead,
                   ingested, alarmsIn, alarmsOut, config>>

\* self.coordinator.data as an entity reads it
coordinator_data_inflight(e) ==
    IF \E c \in cycles[e] : c.metrics # << >>
    THEN [data[e][1] EXCEPT !.metrics =
            (CHOOSE c \in cycles[e] : c.metrics # << >>).metrics[1]]
    ELSE data[e][1]

coordinator_data(e) == data[e][1]

\* the platform reads available and native_value of a NetdataSensor
ReadSensor(e) ==
    \E k \in DOMAIN sensors[e] :
        /\ lastRead' = [lastRead EXCEPT ![e] =
                [view |-> k,
                 available |-> NetdataSensor_available(last_update_success[e], coordinator_data(e), k),
                 value |-> NetdataSensor_native_value(coordinator_data(e), k, sensors[e][k])]]
        /\ UNCHANGED <<phase, registry, data, last_update_success, timer, cycles,
                       outcome, sensors, alarmEntity, ingested, alarmsIn, alarmsOut, config>>

\* the platform reads available and native_value of the NetdataAlarms entity
ReadAlarms(e) ==
    /\ alarmEntity[e]
    /\ lastRead' = [lastRead EXCEPT ![e] =
            [view |-> AlarmView,
             available |-> last_update_success[e],
             value |-> NetdataAlarms_native_value(coordinator_data(e).alarms).value]]
    /\ UNCHANGED <<phase, registry, data, last_update_success, timer, cycles,
                   outcome, sensors, alarmEntity, ingested, alarmsIn, alarmsOut, config>>

\* the NetdataSensor entities left once the platforms are unloaded
UnloadedSensorsKept(s) == s

UnloadedSensors(s) == EmptyMap

\* lines 31-33: hass.data[DOMAIN].pop(entry_id); hass.data.pop(DOMAIN) only when
\* no config entry of the domain is left, and the entry being unloaded still is one
RegistryAfterUnloadAll(reg, e) == {}

RegistryAfterUnloadKept(reg, e) == reg

RegistryAfterUnload(reg, e) ==
    IF Cardinality(DOMAIN phase) = 0 THEN {} ELSE reg \ {e}

\* async_unload_entry: the platforms are unloaded (the entities and with them the
\* listeners go, the last listener disarms the timer) and the registry slot is
\* popped, or the platform unload fails and nothing is popped
async_unload_entry(e) ==
    /\ phase[e] \in {"loaded", "platform_failed"}
    /\ \/ /\ phase' = [phase EXCEPT ![e] = "unloaded"]
          /\ registry' = RegistryAfterUnload(registry, e)
          /\ sensors' = [sensors EXCEPT ![e] = UnloadedSensors(@)]
          /\ alarmEntity' = [alarmEntity EXCEPT ![e] = FALSE]
          /\ timer' = [timer EXCEPT ![e] =
                    IF UnloadedSensors(sensors[e]) = EmptyMap THEN FALSE ELSE @]
       \/ /\ phase' = [phase EXCEPT ![e] = "failed_unload"]
          /\ UNCHANGED <<registry, sensors, alarmEntity, timer>>
    /\ UNCHANGED <<data, last_update_success, cycles, outcome, lastRead, ingested,
                   alarmsIn, alarmsOut, config>>

(***************************************************************************)
(* The config flow and the construction of the coordinator                 *)
(***************************************************************************)
\* the series the daemon lists when the flow asks it; the domain of a series is
\* the part of its name before the first dot, here the name itself
FlowDomains == {"s1", "s2"}
FlowSensors(doms) == {<<s, "d1">> : s \in doms}
MaxInterval == 6
NoConfig == [domains |-> {}, resources |-> {}, scan_interval |-> 0]

\* async_step_user with user_input: the metrics are fetched, self.config is set
async_step_user(e) ==
    /\ phase[e] = "flow_user"
    /\ phase' = [phase EXCEPT ![e] = "flow_domains"]
    /\ UNCHANGED <<registry, data, last_update_success, timer, cycles, outcome, sensors,
                   alarmEntity, lastRead, ingested, alarmsIn, alarmsOut, config>>

\* async_step_domains with user_input: the chosen domains fix self.sensors
async_step_domains(e) ==
    /\ phase[e] = "flow_domains"
    /\ \E doms \in SUBSET FlowDomains :
          config' = [config EXCEPT ![e].domains = doms]
    /\ phase' = [phase EXCEPT ![e] = "flow_sensors"]
    /\ UNCHANGED <<registry, data, last_update_success, timer, cycles, outcome, sensors,
                   alarmEntity, lastRead, ingested, alarmsIn, alarmsOut>>

\* async_step_sensors with user_input: resources among self.sensors and a scan
\* interval the schema accepts (Coerce(int), Range(min=1)); the entry is created
async_step_sensors(e) ==
    /\ phase[e] = "flow_sensors"
    /\ \E res \in SUBSET FlowSensors(config[e].domains) : \E n \in 1..MaxInterval :
          config' = [config EXCEPT ![e].resources = res, ![e].scan_interval = n]
    /\ phase' = [phase EXCEPT ![e] = "configured"]
    /\ UNCHANGED <<registry, data, last_update_success, timer, cycles, outcome, sensors,
                   alarmEntity, lastRead, ingested, alarmsIn, alarmsOut>>

\* __init__.py lines 13-14: what NetdataData(hass, host, port, filters) receives
\* as interval: the list built from config.get(CONF_FILTERS, [])
List == [kind |-> "list", v |-> 0]
IntervalArgument(cfg) == List

\* timedelta(seconds=interval) takes a number and raises TypeError otherwise
TimedeltaAccepts(x) == x.kind = "number"

\* async_setup_entry lines 11-14 with NetdataData.__init__
NetdataData_init(e) ==
    /\ phase[e] = "configured"
    /\ phase' = [phase EXCEPT ![e] =
            IF TimedeltaAccepts(IntervalArgument(config[e]))
            THEN "constructed" ELSE "setup_error"]
    /\ UNCHANGED <<registry, data, last_update_success, timer, cycles, outcome, sensors,
                   alarmEntity, lastRead, ingested, alarmsIn, alarmsOut, config>>

(***************************************************************************)
(* The coordinator of one entry, from construction to unload               *)
(***************************************************************************)
Unread == [value |-> Str("unread"), state |-> "unread"]

InitCoordinatorOver(E, ph, on) ==
    /\ phase = [e \in E |-> ph]
    /\ registry = {}
    /\ data = [e \in E |-> << >>]
    /\ last_update_success = [e \in E |-> TRUE]
    /\ timer = [e \in E |-> FALSE]
    /\ cycles = [e \in E |-> {}]
    /\ outcome = [e \in E |-> "none"]
    /\ sensors = [e \in E |-> EmptyMap]
    /\ alarmEntity = [e \in E |-> FALSE]
    /\ lastRead = [e \in E |-> [view |-> NoView, available |-> FALSE, value |-> None]]
    /\ ingested = [e \in E |-> [on |-> on, raw |-> << >>]]

InitCoordinator(ph, on) == InitCoordinatorOver(Entries, ph, on)

Init ==
    /\ InitCoordinator("constructed", FALSE)
    /\ config = [e \in Entries |-> EntryData]
    /\ alarmsIn = << >>
    /\ alarmsOut = Unread

Next ==
    \/ \E e \in DOMAIN phase : async_setup_entry(e)
    \/ \E e \in DOMAIN phase : Tick(e)
    \/ \E e \in DOMAIN phase : GetMetrics(e)
    \/ \E e \in DOMAIN phase : JsonMetrics(e, PollMetrics)
    \/ \E e \in DOMAIN phase : GetAlarms(e)
    \/ \E e \in DOMAIN phase : JsonAlarms(e, PollAlarms)
    \/ \E e \in DOMAIN phase : sensor_async_setup_entry(e)
    \/ \E e \in DOMAIN phase : ReadSensor(e)
    \/ \E e \in DOMAIN phase : ReadAlarms(e)
    \/ \E e \in DOMAIN phase : async_unload_entry(e)

Spec == Init /\ [][Next]_vars

\* the sensor reads over longer runs of values, with the published values recorded
InitSensor ==
    /\ InitCoordinator("constructed", TRUE)
    /\ config = [e \in Entries |-> EntryData]
    /\ alarmsIn = << >>
    /\ alarmsOut = Unread

NextSensor ==
    \/ \E e \in DOMAIN phase : async_setup_entry(e)
    \/ \E e \in DOMAIN phase : Tick(e)
    \/ \E e \in DOMAIN phase : GetMetrics(e)
    \/ \E e \in DOMAIN phase : JsonMetrics(e, SensorMetrics)
    \/ \E e \in DOMAIN phase : GetAlarms(e)
    \/ \E e \in DOMAIN phase : JsonAlarms(e, SensorAlarms)
    \/ \E e \in DOMAIN phase : sensor_async_setup_entry(e)
    \/ \E e \in DOMAIN phase : ReadSensor(e)

SpecSensor == InitSensor /\ [][NextSensor]_vars

\* the alarm reduction alone, over every alarm map up to MaxAlarms entries
AlarmRead ==
    /\ alarmsOut' = NetdataAlarms_native_value(alarmsIn)
    /\ UNCHANGED <<phase, registry, data, last_update_success, timer, cycles, outcome,
                   sensors, alarmEntity, lastRead, ingested, alarmsIn, config>>

InitAlarms ==
    /\ InitCoordinator("constructed", FALSE)
    /\ config = [e \in Entries |-> EntryData]
    /\ alarmsIn \in AlarmSeqs
    /\ alarmsOut = Unread

NextAlarms == AlarmRead

SpecAlarms == InitAlarms /\ [][NextAlarms]_vars

\* the sensor read alone, over Snapshots of a loaded entry whose series carry
\* the values of ReadValues: 8192.0, -8192.0, 12.286, -3.0, 4.004
ReadValues == {8192000, -8192000, 12286, -3000, 4004}
ReadMetrics == {m \in MetricsOver(ReadValues) : \A k \in Keys : k[1] \in DOMAIN m}

InitRead ==
    /\ phase = [e \in Entries |-> "loaded"]
    /\ registry = Entries
    /\ \E m \in ReadMetrics :
          data = [e \in Entries |-> << [metrics |-> m, alarms |-> << >>, mcyc |-> 1, acyc |-> 1] >>]
    /\ last_update_success \in [Entries -> BOOLEAN]
    /\ timer = [e \in Entries |-> TRUE]
    /\ cycles = [e \in Entries |-> {}]
    /\ outcome = [e \in Entries |-> IF last_update_success[e] THEN "ok" ELSE "get_metrics"]
    /\ sensors = [e \in Entries |-> [k \in Keys |-> Lower(UnitOf(k[1]))]]
    /\ alarmEntity = [e \in Entries |-> TRUE]
    /\ lastRead = [e \in Entries |-> [view |-> NoView, available |-> FALSE, value |-> None]]
    /\ ingested = [e \in Entries |-> [on |-> FALSE, raw |-> << >>]]
    /\ config = [e \in Entries |-> EntryData]
    /\ alarmsIn = << >>
    /\ alarmsOut = Unread

NextRead == \E e \in DOMAIN phase : ReadSensor(e)

SpecRead == InitRead /\ [][NextRead]_vars

\* two entries, each with its own host: the bodies the daemons answer with hold
\* both configured series, or lack s2.  An entry whose setup failed is set up again by the
\* retry, an unloaded one by a reload: a new NetdataData replaces the old one,
\* whose call in flight, if any, ends on an object nothing refers to
Hosts == {"e1", "e2"}
HostMetrics ==
    {m \in PollMetrics :
        /\ "s1" \in DOMAIN m
        /\ \A s \in DOMAIN m : m[s].dimensions = [d \in {"d1"} |-> 4000]}
HostAlarms == {<< >>}

Resetup(e) ==
    /\ phase[e] \in {"setup_failed", "unloaded"}
    /\ phase' = [phase EXCEPT ![e] = "constructed"]
    /\ data' = [data EXCEPT ![e] = << >>]
    /\ last_update_success' = [last_update_success EXCEPT ![e] = TRUE]
    /\ timer' = [timer EXCEPT ![e] = FALSE]
    /\ cycles' = [cycles EXCEPT ![e] = {}]
    /\ outcome' = [outcome EXCEPT ![e] = "none"]
    /\ UNCHANGED <<registry, sensors, alarmEntity, lastRead, ingested, alarmsIn, alarmsOut, config>>

InitHosts ==
    /\ InitCoordinatorOver(Hosts, "constructed", FALSE)
    /\ config = [e \in Hosts |-> EntryData]
    /\ alarmsIn = << >>
    /\ alarmsOut = Unread

NextHosts ==
    \/ \E e \in DOMAIN phase : async_setup_entry(e)
    \/ \E e \in DOMAIN phase : Tick(e)
    \/ \E e \in DOMAIN phase : GetMetrics(e)
    \/ \E e \in DOMAIN phase : JsonMetrics(e, HostMetrics)
    \/ \E e \in DOMAIN phase : GetAlarms(e)
    \/ \E e \in DOMAIN phase : JsonAlarms(e, HostAlarms)
    \/ \E e \in DOMAIN phase : sensor_async_setup_entry(e)
    \/ \E e \in DOMAIN phase : async_unload_entry(e)
    \/ \E e \in DOMAIN phase : Resetup(e)

SpecHosts == InitHosts /\ [][NextHosts]_vars

\* one entry from the start of its config flow to the construction of its
\* coordinator in async_setup_entry
InitSetup ==
    /\ InitCoordinatorOver(Entries, "flow_user", FALSE)
    /\ config = [e \in Entries |-> NoConfig]
    /\ alarmsIn = << >>
    /\ alarmsOut = Unread

NextSetup ==
    \/ \E e \in DOMAIN phase : async_step_user(e)
    \/ \E e \in DOMAIN phase : async_step_domains(e)
    \/ \E e \in DOMAIN phase : async_step_sensors(e)
    \/ \E e \in DOMAIN phase : NetdataData_init(e)

SpecSetup == InitSetup /\ [][NextSetup]_vars

\* the events the event loop delivers: a timer that is armed fires, a request
\* returns or raises, a scheduled setup runs
Fairness ==
    \A e \in Entries :
        /\ WF_vars(async_setup_entry(e))
        /\ WF_vars(Tick(e))
        /\ WF_vars(GetMetrics(e))
        /\ WF_vars(JsonMetrics(e, PollMetrics))
        /\ WF_vars(GetAlarms(e))
        /\ WF_vars(JsonAlarms(e, PollAlarms))
        /\ WF_vars(sensor_async_setup_entry(e))

FairSpec == Spec /\ Fairness

(***************************************************************************)
(* Properties                                                              *)
(***************************************************************************)
Idle(e) == data[e] = << >>
Healthy(e) == data[e] # << >> /\ last_update_success[e]
Degraded(e) == data[e] # << >> /\ ~last_update_success[e]
Failed(e) == outcome[e] \notin {"none", "ok"}

\* this step ends cycle c of entry e
Ends(e, c) == \A d \in cycles'[e] : d.id # c.id

\* C1: the metrics and the alarms of the published snapshot were fetched by the
\* same poll cycle, in every reachable state
C1_SnapshotFromOneCycle ==
    \A e \in Entries :
        data[e] # << >> => data[e][1].mcyc = data[e][1].acyc

\* a second snapshot has been published and a consumer has read it
C1_Witness ==
    \E e \in Entries :
        /\ data[e] # << >>
        /\ data[e][1].mcyc = 2
        /\ outcome[e] = "ok"
        /\ lastRead[e].view = AlarmView
        /\ lastRead[e].value = NetdataAlarms_native_value(data[e][1].alarms).value

\* C2: once a snapshot is published, a cycle that fails leaves the snapshot as it
\* was and makes the coordinator DEGRADED; a cycle whose two fetches succeed makes
\* it HEALTHY and publishes what that cycle fetched
C2_FailureKeepsSnapshot ==
    [][\A e \in Entries :
        \A c \in cycles[e] :
            (data[e] # << >> /\ Ends(e, c)) =>
                /\ outcome'[e] # "ok" => data'[e] = data[e] /\ Degraded(e)'
                /\ outcome'[e] = "ok" =>
                      /\ Healthy(e)'
                      /\ data'[e][1].metrics = c.metrics[1]
                      /\ data'[e][1].mcyc = c.id
                      /\ data'[e][1].acyc = c.id]_vars

\* the coordinator is DEGRADED after a failed cycle, with the timer armed for the next
C2_Witness ==
    \E e \in Entries :
        /\ Degraded(e)
        /\ Failed(e)
        /\ timer[e]
        /\ data[e][1].mcyc = 2

\* C3: a cycle whose metrics fetch succeeded and whose alarms fetch failed
\* publishes nothing, and nothing a cycle in flight has fetched is visible
C3_PartialNeverPublished ==
    [][\A e \in Entries :
        /\ \A c \in cycles[e] :
              (Ends(e, c) /\ outcome'[e] \in {"get_alarms", "json_alarms"}) =>
                  data'[e] = data[e]
        /\ \A c \in cycles'[e] :
              data'[e] # << >> => c.id \notin {data'[e][1].mcyc, data'[e][1].acyc}]_vars

\* the alarms fetch of a cycle failed after its metrics were parsed, with a
\* snapshot published before
C3_Witness ==
    \E e \in Entries :
        /\ outcome[e] = "json_alarms"
        /\ data[e] # << >>
        /\ phase[e] = "loaded"

\* C4: an alarm map with a relevant CRITICAL entry reads as critical
Relevant(a) ==
    /\ a.recipient # "silent"
    /\ a.status \notin {"CLEAR", "UNDEFINED", "UNINITIALIZED"}

RelevantCritical(alarms) ==
    \E i \in 1..Len(alarms) : Relevant(alarms[i]) /\ alarms[i].status = "CRITICAL"

C4_CriticalReadsCritical ==
    (alarmsOut # Unread /\ RelevantCritical(alarmsIn)) =>
        alarmsOut.value = Str("critical")

\* C5: an alarm map without a relevant CRITICAL entry reads as warning when an
\* entry is relevant and as ok when none is
C5_WarningOrOk ==
    (alarmsOut # Unread /\ ~RelevantCritical(alarmsIn)) =>
        alarmsOut.value =
            IF \E i \in 1..Len(alarmsIn) : Relevant(alarmsIn[i])
            THEN Str("warning") ELSE Str("ok")

\* a silent CRITICAL entry and a relevant entry of another status read as warning
C5_Witness ==
    /\ alarmsOut.value = Str("warning")
    /\ \E i, j \in 1..Len(alarmsIn) :
          /\ alarmsIn[i] = [status |-> "CRITICAL", recipient |-> "silent"]
          /\ alarmsIn[j] = [status |-> "REMOVED", recipient |-> "sysadmin"]

\* C6: once three values have been published for a smoothed key, its sensor reads
\* the mean of the last three absolute values, rounded to two decimals
MeanAbs(raw) ==
    RoundDiv(Abs(raw[1]) + Abs(raw[2]) + Abs(raw[3]), 3 * 10) * 10

KeyAbsent(d, k) ==
    \/ k[1] \notin DOMAIN d.metrics
    \/ k[2] \notin DOMAIN d.metrics[k[1]].dimensions

C6_ReadIsMeanOfLastThree ==
    \A e \in Entries :
        ( /\ TrackedKey \in DOMAIN sensors[e]
          /\ Len(ingested[e].raw) = 3
          /\ ~KeyAbsent(data[e][1], TrackedKey) ) =>
            NetdataSensor_native_value(data[e][1], TrackedKey, sensors[e][TrackedKey])
                = Num(MeanAbs(ingested[e].raw))

\* C7: a sensor whose key is absent from the snapshot, the series or only the
\* dimension, reads as unavailable without raising, and the sensors of the keys
\* that are present still read their numbers
C7_AbsentKeyReadsUnavailable ==
    \A e \in Entries :
        \A k \in DOMAIN sensors[e] :
            KeyAbsent(data[e][1], k) =>
                /\ ~NetdataSensor_available(last_update_success[e], data[e][1], k)
                /\ NetdataSensor_native_value(data[e][1], k, sensors[e][k]) # KeyError
                /\ \A k2 \in DOMAIN sensors[e] :
                      ~KeyAbsent(data[e][1], k2) =>
                          NetdataSensor_native_value(data[e][1], k2, sensors[e][k2]).kind = "number"

\* C8: when the first poll cycle fails the setup fails: nothing is stored in the
\* registry, the platform is not set up, and no entity exists while no snapshot
\* was ever published
C8_FirstFailureFailsSetup ==
    \A e \in Entries :
        /\ (Failed(e) /\ Idle(e)) => phase[e] = "setup_failed"
        /\ Idle(e) =>
              /\ e \notin registry
              /\ Listeners(e) = {}
              /\ phase[e] \in {"constructed", "refreshing", "setup_failed"}

\* the first cycle failed at its last await and the setup has failed
C8_Witness ==
    \E e \in Entries :
        /\ outcome[e] = "json_alarms"
        /\ Idle(e)
        /\ phase[e] = "setup_failed"

CycleFollowedByCycleWhileListening ==
    \A e \in Entries :
        (outcome[e] # "none" /\ cycles[e] = {} /\ Listeners(e) # {})
            ~> (cycles[e] # {} \/ phase[e] = "unloaded")

\* C10: while the entry is set up and not torn down, every finished poll cycle is
\* eventually followed by another one
C10_CycleFollowedByCycle ==
    \A e \in Entries :
        (outcome[e] # "none" /\ cycles[e] = {})
            ~> (cycles[e] # {} \/ phase[e] \in {"setup_failed", "unloaded"})

Slot(e) ==
    <<phase[e], e \in registry, data[e], last_update_success[e], timer[e], cycles[e],
      outcome[e], sensors[e], alarmEntity[e]>>

\* C12: a step that changes anything of one entry (a cycle step, a failure, a
\* setup, an unload) leaves the Snapshot, the coordinator state, the entities and
\* the registry slot of every other entry as they were
C12_HostsIndependent ==
    [][\A e \in DOMAIN phase : \A o \in DOMAIN phase \ {e} :
        Slot(e)' # Slot(e) => Slot(o)' = Slot(o)]_vars

\* one entry was unloaded after a failed cycle while the other is loaded, holds
\* its registry slot and polls
C12_Witness ==
    \E e \in DOMAIN phase : \E o \in DOMAIN phase \ {e} :
        /\ phase[e] = "unloaded" /\ Degraded(e)
        /\ phase[o] = "loaded" /\ o \in registry /\ Healthy(o) /\ cycles[o] # {}

\* the raw value behind the last read of a sensor view
RawRead(e) == data[e][1].metrics[lastRead[e].view[1]].dimensions[lastRead[e].view[2]]
ReadHasValue(e) ==
    /\ lastRead[e].view \in Keys
    /\ lastRead[e].view[2] \in DOMAIN data[e][1].metrics[lastRead[e].view[1]].dimensions

\* C13: a kilobits/s series reads as the absolute raw value divided by 1024 and
\* by 8 and rounded to 3 decimals, every other series as the absolute raw value
\* rounded to 2 decimals
C13_ReadConvertsRaw ==
    \A e \in Entries :
        ReadHasValue(e) =>
            lastRead[e].value =
                IF sensors[e][lastRead[e].view] = "kilobits/s"
                THEN Num(RoundDiv(Abs(RawRead(e)), 1024 * 8))
                ELSE Num(RoundDiv(Abs(RawRead(e)), 10) * 10)

\* what the read does return: the value rounded to 2 decimals first, then, for
\* kilobits/s, divided and rounded to 3 decimals; 8192 and -8192 read as 1.0
ReadConvertsRounded ==
    \A e \in Entries :
        ReadHasValue(e) =>
            /\ lastRead[e].value =
                IF sensors[e][lastRead[e].view] = "kilobits/s"
                THEN Num(RoundDiv(RoundDiv(Abs(RawRead(e)), 10) * 10, 1024 * 8))
                ELSE Num(RoundDiv(Abs(RawRead(e)), 10) * 10)
            /\ (sensors[e][lastRead[e].view] = "kilobits/s"
                    /\ RawRead(e) \in {8192000, -8192000})
                => lastRead[e].value = Num(1000)

State(e) ==
    IF Idle(e) THEN "IDLE" ELSE IF Healthy(e) THEN "HEALTHY" ELSE "DEGRADED"

\* C14: the coordinator state stays or moves IDLE -> HEALTHY, HEALTHY -> DEGRADED
\* or DEGRADED -> HEALTHY; it enters HEALTHY only when a cycle succeeded and
\* DEGRADED only when a cycle failed and left the published Snapshot in place
C14_StateMachine ==
    [][\A e \in Entries :
        /\ \/ State(e)' = State(e)
           \/ <<State(e), State(e)'>> \in
                {<<"IDLE", "HEALTHY">>, <<"HEALTHY", "DEGRADED">>, <<"DEGRADED", "HEALTHY">>}
        /\ State(e)' # State(e) /\ State(e)' = "HEALTHY" => outcome'[e] = "ok"
        /\ State(e)' # State(e) /\ State(e)' = "DEGRADED" =>
                Failed(e)' /\ data'[e] = data[e]]_vars

\* the coordinator is DEGRADED and the next cycle awaits its last body
C14_Witness ==
    \E e \in Entries :
        /\ State(e) = "DEGRADED"
        /\ \E c \in cycles[e] : c.pc = "json_alarms"

\* C15: the interval handed to the coordinator of a configured entry is the
\* entry's scan interval, a number of seconds of at least 1, and the
\* construction of the coordinator succeeds
C15_IntervalIsScanInterval ==
    \A e \in Entries :
        /\ phase[e] = "configured" =>
              /\ config[e].scan_interval >= 1
              /\ IntervalArgument(config[e]) = Num(config[e].scan_interval)
        /\ phase[e] # "setup_error"

\* C16: once the platform setup ran, the alarm entity exists and so does the
\* sensor of every configured key whose series the Snapshot holds; a key whose
\* series is missing costs only its own sensor
C16_MissingSeriesOnlyOwnView ==
    \A e \in Entries :
        phase[e] \in {"loaded", "platform_failed"} =>
            /\ alarmEntity[e]
            /\ \A k \in Keys :
                  k \in DOMAIN sensors[e] \/ k[1] \notin DOMAIN data[e][1].metrics

\* C17: a read of a sensor or of the alarm entity starts no cycle and leaves the
\* Snapshot, the coordinator, the entities and the registry as they were, and
\* what it returns is computed from the Snapshot published last
C17_ReadsOnlyRead ==
    [][\A e \in Entries :
        lastRead'[e] # lastRead[e] =>
            /\ UNCHANGED <<phase, registry, data, last_update_success, timer, cycles,
                           outcome, sensors, alarmEntity>>
            /\ LET r == lastRead'[e]
               IN  IF r.view = AlarmView
                   THEN /\ r.available = last_update_success[e]
                        /\ r.value = NetdataAlarms_native_value(data[e][1].alarms).value
                   ELSE /\ r.available =
                              NetdataSensor_available(last_update_success[e], data[e][1], r.view)
                        /\ r.value =
                              NetdataSensor_native_value(data[e][1], r.view, sensors[e][r.view])]_vars

\* a sensor was read while a cycle holds fetched metrics that differ from the
\* published ones
C17_Witness ==
    \E e \in Entries :
        /\ lastRead[e].view \in DOMAIN sensors[e]
        /\ lastRead[e].value =
              NetdataSensor_native_value(data[e][1], lastRead[e].view, sensors[e][lastRead[e].view])
        /\ \E c \in cycles[e] :
              /\ c.pc = "get_alarms"
              /\ NetdataSensor_native_value([metrics |-> c.metrics[1]], lastRead[e].view,
                                            sensors[e][lastRead[e].view]) # lastRead[e].value

\* the alarm map iterated in the order p
Reordered(alarms, p) == [i \in 1..Len(alarms) |-> alarms[p[i]]]

\* C18: the value the alarm entity returns, and the state it keeps, are the
\* same for every order in which the entries of the alarm map are iterated
C18_OrderIrrelevant ==
    alarmsOut # Unread =>
        \A p \in Permutations(1..Len(alarmsIn)) :
            NetdataAlarms_native_value(Reordered(alarmsIn, p)) = alarmsOut

\* two different relevant entries were reduced, the CRITICAL one last
C18_Witness ==
    /\ alarmsOut # Unread
    /\ Len(alarmsIn) = 2
    /\ Relevant(alarmsIn[1]) /\ alarmsIn[1].status # "CRITICAL"
    /\ Relevant(alarmsIn[2]) /\ alarmsIn[2].status = "CRITICAL"

\* the entry's setup got through its first refresh and the entry was not
\* unloaded since
SetUp(e) == phase[e] \in {"stored", "loaded", "platform_failed", "failed_unload"}

\* C19: the registry holds exactly the entries that are set up, and a setup that
\* fails at its first refresh or an unload whose platform unload fails leaves
\* the registry as it was
C19_RegistryTracksSetup ==
    [][/\ \A e \in DOMAIN phase : e \in registry <=> SetUp(e)
       /\ \A e \in DOMAIN phase : e \in registry' <=> SetUp(e)'
       /\ \A e \in DOMAIN phase :
            phase'[e] # phase[e] /\ phase'[e] \in {"setup_failed", "failed_unload"}
                => registry' = registry]_vars

\* one entry's platform unload failed and it keeps its slot, while the other
\* entry's setup failed and it has none
C19_Witness ==
    \E e \in DOMAIN phase : \E o \in DOMAIN phase \ {e} :
        /\ phase[e] = "failed_unload" /\ e \in registry
        /\ phase[o] = "setup_failed" /\ o \notin registry

====
